---- MODULE Spec2Model ----
(***************************************************************************)
(* Model of Cplusplus/DataStructure/StatusMachine.cpp: the transition      *)
(* table transitionRules and the three state machines built on it,         *)
(* SyncStateMachine (mutex), LockFreeStateMachine (atomic + CAS loop) and  *)
(* SyncStateMachine_Callback (mutex + observer), driven by threads.        *)
(*                                                                         *)
(* One behaviour works on one instance of one class; `variant` says which. *)
(* Every handler is split at the points where another thread can           *)
(* interleave: taking the mutex, each access to currentState, the observer *)
(* call, the return.                                                       *)
(***************************************************************************)
EXTENDS Integers, Sequences, FiniteSets, TLC

\* ---- bounds of the model ----
NumThreads == 2     \* caller threads of the general specification
MaxCalls == 2       \* calls each of them issues
SeqCalls == 4       \* calls of the single caller of the sequential specification
MaxRules == 2       \* rules of a rule list the table is constructed from
MaxContention == 5  \* calls of the thread that keeps changing the state
IterCap == 6        \* the count of loop iterations of a call stops growing here

\* ---- the program's constants ----
NumWorkers == 2     \* main() starts t1 and t2
MainThread == 0     \* the thread running main()
Contender == 1      \* a thread that keeps changing the state
Victim == 2         \* a thread that calls handleEvent(Stop) meanwhile

States == {"Idle", "Running", "Paused", "Stopped"}
Events == {"Start", "Pause", "Resume", "Stop"}
Variants == {"Sync", "LockFree", "Callback"}

Undef == "undef"    \* a local that has not been assigned
End == "end"        \* transitionRules.end()
Free == -1          \* the mutex is not held

Threads == 1..NumThreads
Workers == 1..NumWorkers

\* a table with a rule out of Stopped: Stop is accepted a second time
InitialRules_StopTwice ==
    (<<"Idle", "Start">> :> "Running") @@
    (<<"Running", "Pause">> :> "Paused") @@
    (<<"Paused", "Resume">> :> "Running") @@
    (<<"Running", "Stop">> :> "Stopped") @@
    (<<"Paused", "Stop">> :> "Stopped") @@
    (<<"Stopped", "Stop">> :> "Stopped")

\* a table that lets a stopped machine start again
InitialRules_Restart ==
    (<<"Idle", "Start">> :> "Running") @@
    (<<"Running", "Pause">> :> "Paused") @@
    (<<"Paused", "Resume">> :> "Running") @@
    (<<"Running", "Stop">> :> "Stopped") @@
    (<<"Paused", "Stop">> :> "Stopped") @@
    (<<"Stopped", "Start">> :> "Running")

\* a table that takes a stopped machine back to Idle on Resume
InitialRules_Reset ==
    (<<"Idle", "Start">> :> "Running") @@
    (<<"Running", "Pause">> :> "Paused") @@
    (<<"Paused", "Resume">> :> "Running") @@
    (<<"Running", "Stop">> :> "Stopped") @@
    (<<"Paused", "Stop">> :> "Stopped") @@
    (<<"Stopped", "Resume">> :> "Idle")

\* a table with a sixth rule: a fresh machine accepts Resume
InitialRules_SixRules ==
    (<<"Idle", "Start">> :> "Running") @@
    (<<"Running", "Pause">> :> "Paused") @@
    (<<"Paused", "Resume">> :> "Running") @@
    (<<"Running", "Stop">> :> "Stopped") @@
    (<<"Paused", "Stop">> :> "Stopped") @@
    (<<"Idle", "Resume">> :> "Running")

\* the initializer list of transitionRules: <<key, mapped state>> in source order
TransitionRuleList ==
    << <<<<"Idle", "Start">>, "Running">>,
       <<<<"Running", "Pause">>, "Paused">>,
       <<<<"Paused", "Resume">>, "Running">>,
       <<<<"Running", "Stop">>, "Stopped">>,
       <<<<"Paused", "Stop">>, "Stopped">> >>

\* the function with an empty domain: a std::map without entries
EmptyMap == [k \in {} |-> Undef]

\* std::map's constructor from an initializer list: the entries are inserted
\* in order, and an entry whose key the map already holds is dropped
RECURSIVE MapFromList(_)
MapFromList(rules) ==
    IF rules = <<>>
    THEN EmptyMap
    ELSE LET m == MapFromList(SubSeq(rules, 1, Len(rules) - 1))
             r == rules[Len(rules)]
         IN IF r[1] \in DOMAIN m THEN m ELSE m @@ (r[1] :> r[2])

\* the global map as constructed at start-up
InitialRules == MapFromList(TransitionRuleList)

\* the constructors' member initializer currentState(State::Idle)
InitialState == "Idle"

\* worker(): the four calls, in order
WorkerEvents == <<"Start", "Pause", "Resume", "Stop">>

VARIABLES
    variant,          \* the class of the shared instance
    ruleList,         \* the rule list the global map is constructed from
    transitionRules,  \* the global std::map
    currentState,     \* the instance's state
    mtx,              \* owner of the instance's mutex, or Free
    onStateChanged,   \* TRUE when a callback is set (SyncStateMachine_Callback)
    pc,               \* each thread's position
    frame,            \* each thread's locals of the running call
    calls,            \* number of calls each thread has issued
    hist,             \* per thread: the handleEvent calls that returned, <<event, result>>
    got,              \* per thread: the last value getCurrentState returned
    delivered,        \* the (old, event, new) triples the observer received, in order
    commits           \* number of values stored into currentState since construction

vars == <<variant, ruleList, transitionRules, currentState, mtx, onStateChanged, pc, frame,
          calls, hist, got, delivered, commits>>

\* the local key, a (state, event) pair, before it is assigned
NoKey == <<Undef, Undef>>

\* the locals of a call before any of them is assigned
NoFrame == [event |-> Undef, key |-> NoKey, it |-> Undef, expected |-> Undef,
            desired |-> Undef, oldState |-> Undef, atCall |-> Undef,
            iters |-> 0, atCommits |-> 0, atLoad |-> 0]

\* transitionRules.find(key): the mapped state, or End
Find(table, k) == IF k \in DOMAIN table THEN table[k] ELSE End

InitOf(procs, variants) ==
    /\ variant \in variants
    /\ ruleList = TransitionRuleList
    /\ transitionRules = InitialRules
    /\ currentState = InitialState
    /\ mtx = Free
    /\ onStateChanged = FALSE
    /\ pc = [t \in procs |-> "idle"]
    /\ frame = [t \in procs |-> NoFrame]
    /\ calls = [t \in procs |-> 0]
    /\ hist = [t \in procs |-> <<>>]
    /\ got = [t \in procs |-> Undef]
    /\ delivered = <<>>
    /\ commits = 0

Init == InitOf(Threads, Variants)

\* ---- calls ----

\* a thread enters handleEvent(e)
HandleEventCall(t, e) ==
    /\ pc[t] = "idle"
    /\ pc' = [pc EXCEPT ![t] = IF variant = "LockFree" THEN "load" ELSE "lock"]
    /\ frame' = [frame EXCEPT ![t] = [NoFrame EXCEPT !.event = e, !.atCall = currentState,
                                                     !.atCommits = commits]]
    /\ calls' = [calls EXCEPT ![t] = @ + 1]
    /\ UNCHANGED <<variant, ruleList, transitionRules, currentState, mtx, onStateChanged,
                   hist, got, delivered, commits>>

\* a thread enters getCurrentState() (SyncStateMachine_Callback has none)
GetCurrentStateCall(t) ==
    /\ pc[t] = "idle"
    /\ variant # "Callback"
    /\ pc' = [pc EXCEPT ![t] = IF variant = "LockFree" THEN "gload" ELSE "glock"]
    /\ frame' = [frame EXCEPT ![t] = [NoFrame EXCEPT !.atCall = currentState]]
    /\ calls' = [calls EXCEPT ![t] = @ + 1]
    /\ UNCHANGED <<variant, ruleList, transitionRules, currentState, mtx, onStateChanged,
                   hist, got, delivered, commits>>

\* the call returns rv: the frame is gone, the result is with the caller
ReturnOf(t, rv) ==
    /\ hist' = [hist EXCEPT ![t] = Append(@, <<frame[t].event, rv>>)]
    /\ frame' = [frame EXCEPT ![t] = NoFrame]
    /\ pc' = [pc EXCEPT ![t] = "idle"]

\* ---- SyncStateMachine ----

\* a handleEvent that takes no notice of the mutex being held
Sync_Lock_NoWait(t) ==
    /\ variant = "Sync"
    /\ pc[t] = "lock"
    /\ mtx' = t
    /\ pc' = [pc EXCEPT ![t] = "find"]
    /\ UNCHANGED <<variant, ruleList, transitionRules, currentState, onStateChanged, frame,
                   calls, hist, got, delivered, commits>>

\* std::lock_guard<std::mutex> lock(mtx)
Sync_Lock(t) ==
    /\ variant = "Sync"
    /\ pc[t] = "lock"
    /\ mtx = Free
    /\ mtx' = t
    /\ pc' = [pc EXCEPT ![t] = "find"]
    /\ UNCHANGED <<variant, ruleList, transitionRules, currentState, onStateChanged, frame,
                   calls, hist, got, delivered, commits>>

\* Sync_Find without the test against end(): the iterator is used as found
Sync_Find_NoEndTest(t) ==
    /\ variant = "Sync"
    /\ pc[t] = "find"
    /\ LET k == <<currentState, frame[t].event>>
           i == Find(transitionRules, k)
       IN /\ frame' = [frame EXCEPT ![t].key = k, ![t].it = i]
          /\ pc' = [pc EXCEPT ![t] = "assign"]
    /\ UNCHANGED <<variant, ruleList, transitionRules, currentState, mtx, onStateChanged,
                   calls, hist, got, delivered, commits>>

\* a lookup written transitionRules[key]: a key the map does not hold is
\* inserted with a value-initialised State, the first enumerator
Sync_Find_Subscript(t) ==
    /\ variant = "Sync"
    /\ pc[t] = "find"
    /\ LET k == <<currentState, frame[t].event>>
           i == Find(transitionRules, k)
       IN /\ frame' = [frame EXCEPT ![t].key = k, ![t].it = i]
          /\ pc' = [pc EXCEPT ![t] = IF i # End THEN "assign" ELSE "retfalse"]
          /\ transitionRules' = IF i # End THEN transitionRules
                                 ELSE (k :> "Idle") @@ transitionRules
    /\ UNCHANGED <<variant, ruleList, currentState, mtx, onStateChanged,
                   calls, hist, got, delivered, commits>>

\* key = make_tuple(currentState, event); it = transitionRules.find(key); the test
Sync_Find(t) ==
    /\ variant = "Sync"
    /\ pc[t] = "find"
    /\ LET k == <<currentState, frame[t].event>>
           i == Find(transitionRules, k)
       IN /\ frame' = [frame EXCEPT ![t].key = k, ![t].it = i]
          /\ pc' = [pc EXCEPT ![t] = IF i # End THEN "assign" ELSE "retfalse"]
    /\ UNCHANGED <<variant, ruleList, transitionRules, currentState, mtx, onStateChanged,
                   calls, hist, got, delivered, commits>>

\* currentState = it->second
Sync_Assign(t) ==
    /\ variant = "Sync"
    /\ pc[t] = "assign"
    /\ currentState' = frame[t].it
    /\ commits' = commits + 1
    /\ pc' = [pc EXCEPT ![t] = "rettrue"]
    /\ UNCHANGED <<variant, ruleList, transitionRules, mtx, onStateChanged, frame,
                   calls, hist, got, delivered>>

\* a handleEvent that reports success whatever the lookup found
Sync_Return_AlwaysTrue(t) ==
    /\ variant = "Sync"
    /\ pc[t] \in {"rettrue", "retfalse"}
    /\ ReturnOf(t, TRUE)
    /\ mtx' = Free
    /\ UNCHANGED <<variant, ruleList, transitionRules, currentState, onStateChanged,
                   calls, got, delivered, commits>>

\* return true / return false; the lock_guard releases the mutex
Sync_Return(t) ==
    /\ variant = "Sync"
    /\ pc[t] \in {"rettrue", "retfalse"}
    /\ ReturnOf(t, pc[t] = "rettrue")
    /\ mtx' = Free
    /\ UNCHANGED <<variant, ruleList, transitionRules, currentState, onStateChanged,
                   calls, got, delivered, commits>>

Sync_handleEvent(t) ==
    \/ Sync_Lock(t)
    \/ Sync_Find(t)
    \/ Sync_Assign(t)
    \/ Sync_Return(t)

\* State getCurrentState() const: lock_guard, then return currentState
Sync_getCurrentState(t) ==
    /\ variant = "Sync"
    /\ \/ /\ pc[t] = "glock"
          /\ mtx = Free
          /\ mtx' = t
          /\ pc' = [pc EXCEPT ![t] = "gread"]
          /\ UNCHANGED <<frame, got>>
       \/ /\ pc[t] = "gread"
          /\ got' = [got EXCEPT ![t] = currentState]
          /\ mtx' = Free
          /\ frame' = [frame EXCEPT ![t] = NoFrame]
          /\ pc' = [pc EXCEPT ![t] = "idle"]
    /\ UNCHANGED <<variant, ruleList, transitionRules, currentState, onStateChanged,
                   calls, hist, delivered, commits>>

\* ---- LockFreeStateMachine ----

\* expected = currentState.load(), the first statement of the loop body;
\* iters counts the iterations the call has begun, atLoad is the number of
\* stores made before this load
LockFree_Load(t) ==
    /\ variant = "LockFree"
    /\ pc[t] = "load"
    /\ frame' = [frame EXCEPT ![t].expected = currentState,
                              ![t].iters = IF @ < IterCap THEN @ + 1 ELSE @,
                              ![t].atLoad = commits]
    /\ pc' = [pc EXCEPT ![t] = "lffind"]
    /\ UNCHANGED <<variant, ruleList, transitionRules, currentState, mtx, onStateChanged,
                   calls, hist, got, delivered, commits>>

\* LockFree_Find without the early return: desired is taken from the iterator
\* whatever it is
LockFree_Find_NoEndTest(t) ==
    /\ variant = "LockFree"
    /\ pc[t] = "lffind"
    /\ LET k == <<frame[t].expected, frame[t].event>>
           i == Find(transitionRules, k)
       IN /\ frame' = [frame EXCEPT ![t].key = k, ![t].it = i, ![t].desired = i]
          /\ pc' = [pc EXCEPT ![t] = "cas"]
    /\ UNCHANGED <<variant, ruleList, transitionRules, currentState, mtx, onStateChanged,
                   calls, hist, got, delivered, commits>>

\* key = make_tuple(expected, event); it = find(key);
\* if (it == end) return false; desired = it->second
LockFree_Find(t) ==
    /\ variant = "LockFree"
    /\ pc[t] = "lffind"
    /\ LET k == <<frame[t].expected, frame[t].event>>
           i == Find(transitionRules, k)
       IN IF i = End
          THEN ReturnOf(t, FALSE)
          ELSE /\ frame' = [frame EXCEPT ![t].key = k, ![t].it = i, ![t].desired = i]
               /\ pc' = [pc EXCEPT ![t] = "cas"]
               /\ UNCHANGED hist
    /\ UNCHANGED <<variant, ruleList, transitionRules, currentState, mtx, onStateChanged,
                   calls, got, delivered, commits>>

\* a plain store in place of the compare-and-swap: desired is written whatever
\* currentState holds
CasStoresBlindly(t) ==
    /\ currentState' = frame[t].desired
    /\ commits' = commits + 1
    /\ pc' = [pc EXCEPT ![t] = "rettrue"]
    /\ UNCHANGED frame

\* currentState.compare_exchange_weak(expected, desired) stores desired and
\* yields true
CasSucceeds(t) ==
    /\ currentState = frame[t].expected
    /\ currentState' = frame[t].desired
    /\ commits' = commits + 1
    /\ pc' = [pc EXCEPT ![t] = "rettrue"]
    /\ UNCHANGED frame

\* a loop that repeats only the compare-and-swap: expected has been refreshed
\* by the failed exchange, desired is the candidate computed before
CasFails_RetriesStale(t) ==
    /\ UNCHANGED <<currentState, commits>>
    /\ frame' = [frame EXCEPT ![t].expected = currentState]
    /\ pc' = [pc EXCEPT ![t] = "cas"]

\* a loop with a retry limit: from its second iteration on, a failed exchange
\* ends the loop and the call falls through to return true
CasFails_GivesUp(t) ==
    /\ UNCHANGED <<currentState, commits>>
    /\ frame' = [frame EXCEPT ![t].expected = currentState]
    /\ pc' = [pc EXCEPT ![t] = IF frame[t].iters < 2 THEN "load" ELSE "rettrue"]

\* compare_exchange_weak yields false and writes the value it saw into
\* expected: the values differ, or they are equal and the weak form fails
\* spuriously; the loop goes round
CasFails(t) ==
    /\ UNCHANGED <<currentState, commits>>
    /\ frame' = [frame EXCEPT ![t].expected = currentState]
    /\ pc' = [pc EXCEPT ![t] = "load"]

\* while (!currentState.compare_exchange_weak(expected, desired))
LockFree_Cas(t) ==
    /\ variant = "LockFree"
    /\ pc[t] = "cas"
    /\ \/ CasSucceeds(t)
       \/ CasFails(t)
    /\ UNCHANGED <<variant, ruleList, transitionRules, mtx, onStateChanged,
                   calls, hist, got, delivered>>

\* return true
LockFree_Return(t) ==
    /\ variant = "LockFree"
    /\ pc[t] = "rettrue"
    /\ ReturnOf(t, TRUE)
    /\ UNCHANGED <<variant, ruleList, transitionRules, currentState, mtx, onStateChanged,
                   calls, got, delivered, commits>>

LockFree_handleEvent(t) ==
    \/ LockFree_Load(t)
    \/ LockFree_Find(t)
    \/ LockFree_Cas(t)
    \/ LockFree_Return(t)

\* a getter that hands out the state the machine was constructed with
LockFree_getCurrentState_Initial(t) ==
    /\ variant = "LockFree"
    /\ pc[t] = "gload"
    /\ got' = [got EXCEPT ![t] = InitialState]
    /\ frame' = [frame EXCEPT ![t] = NoFrame]
    /\ pc' = [pc EXCEPT ![t] = "idle"]
    /\ UNCHANGED <<variant, ruleList, transitionRules, currentState, mtx, onStateChanged,
                   calls, hist, delivered, commits>>

\* State getCurrentState() const { return currentState.load(); }
LockFree_getCurrentState(t) ==
    /\ variant = "LockFree"
    /\ pc[t] = "gload"
    /\ got' = [got EXCEPT ![t] = currentState]
    /\ frame' = [frame EXCEPT ![t] = NoFrame]
    /\ pc' = [pc EXCEPT ![t] = "idle"]
    /\ UNCHANGED <<variant, ruleList, transitionRules, currentState, mtx, onStateChanged,
                   calls, hist, delivered, commits>>

\* ---- SyncStateMachine_Callback ----

\* setCallback(callback): to be called before the instance is shared
setCallback ==
    /\ variant = "Callback"
    /\ ~onStateChanged
    /\ \A t \in DOMAIN pc : pc[t] = "idle" /\ calls[t] = 0
    /\ onStateChanged' = TRUE
    /\ UNCHANGED <<variant, ruleList, transitionRules, currentState, mtx, pc, frame,
                   calls, hist, got, delivered, commits>>

\* an entry that does not wait for the mutex
Callback_Lock_NoWait(t) ==
    /\ variant = "Callback"
    /\ pc[t] = "lock"
    /\ mtx' = t
    /\ pc' = [pc EXCEPT ![t] = "find"]
    /\ UNCHANGED <<variant, ruleList, transitionRules, currentState, onStateChanged, frame,
                   calls, hist, got, delivered, commits>>

\* std::lock_guard<std::mutex> lock(mtx)
Callback_Lock(t) ==
    /\ variant = "Callback"
    /\ pc[t] = "lock"
    /\ mtx = Free
    /\ mtx' = t
    /\ pc' = [pc EXCEPT ![t] = "find"]
    /\ UNCHANGED <<variant, ruleList, transitionRules, currentState, onStateChanged, frame,
                   calls, hist, got, delivered, commits>>

\* key = make_tuple(currentState, event); it = transitionRules.find(key); the test
Callback_Find(t) ==
    /\ variant = "Callback"
    /\ pc[t] = "find"
    /\ LET k == <<currentState, frame[t].event>>
           i == Find(transitionRules, k)
       IN /\ frame' = [frame EXCEPT ![t].key = k, ![t].it = i]
          /\ pc' = [pc EXCEPT ![t] = IF i # End THEN "assign" ELSE "retfalse"]
    /\ UNCHANGED <<variant, ruleList, transitionRules, currentState, mtx, onStateChanged,
                   calls, hist, got, delivered, commits>>

\* the mutex is given up right after the assignment, so the observer runs
\* outside the critical section
Callback_Assign_Unlocks(t) ==
    /\ variant = "Callback"
    /\ pc[t] = "assign"
    /\ frame' = [frame EXCEPT ![t].oldState = currentState]
    /\ currentState' = frame[t].it
    /\ commits' = commits + 1
    /\ mtx' = Free
    /\ pc' = [pc EXCEPT ![t] = "notify"]
    /\ UNCHANGED <<variant, ruleList, transitionRules, onStateChanged,
                   calls, hist, got, delivered>>

\* oldState is taken after the assignment instead of before it
Callback_Assign_OldAfter(t) ==
    /\ variant = "Callback"
    /\ pc[t] = "assign"
    /\ frame' = [frame EXCEPT ![t].oldState = frame[t].it]
    /\ currentState' = frame[t].it
    /\ commits' = commits + 1
    /\ pc' = [pc EXCEPT ![t] = "notify"]
    /\ UNCHANGED <<variant, ruleList, transitionRules, mtx, onStateChanged,
                   calls, hist, got, delivered>>

\* State oldState = currentState; currentState = it->second
Callback_Assign(t) ==
    /\ variant = "Callback"
    /\ pc[t] = "assign"
    /\ frame' = [frame EXCEPT ![t].oldState = currentState]
    /\ currentState' = frame[t].it
    /\ commits' = commits + 1
    /\ pc' = [pc EXCEPT ![t] = "notify"]
    /\ UNCHANGED <<variant, ruleList, transitionRules, mtx, onStateChanged,
                   calls, hist, got, delivered>>

\* if (onStateChanged) onStateChanged(oldState, event, currentState): the
\* observer is entered with the three arguments, or skipped when none is set
Callback_Notify(t) ==
    /\ variant = "Callback"
    /\ pc[t] = "notify"
    /\ IF onStateChanged
       THEN /\ delivered' = Append(delivered,
                                   <<frame[t].oldState, frame[t].event, currentState>>)
            /\ pc' = [pc EXCEPT ![t] = "incallback"]
       ELSE /\ delivered' = delivered
            /\ pc' = [pc EXCEPT ![t] = "rettrue"]
    /\ UNCHANGED <<variant, ruleList, transitionRules, currentState, mtx, onStateChanged, frame,
                   calls, hist, got, commits>>

\* the observer returns to handleEvent
Callback_ObserverReturns(t) ==
    /\ variant = "Callback"
    /\ pc[t] = "incallback"
    /\ pc' = [pc EXCEPT ![t] = "rettrue"]
    /\ UNCHANGED <<variant, ruleList, transitionRules, currentState, mtx, onStateChanged, frame,
                   calls, hist, got, delivered, commits>>

\* a handleEvent that reports success whatever the lookup found
Callback_Return_AlwaysTrue(t) ==
    /\ variant = "Callback"
    /\ pc[t] \in {"rettrue", "retfalse"}
    /\ ReturnOf(t, TRUE)
    /\ mtx' = Free
    /\ UNCHANGED <<variant, ruleList, transitionRules, currentState, onStateChanged,
                   calls, got, delivered, commits>>

\* return true / return false; the lock_guard releases the mutex
Callback_Return(t) ==
    /\ variant = "Callback"
    /\ pc[t] \in {"rettrue", "retfalse"}
    /\ ReturnOf(t, pc[t] = "rettrue")
    /\ mtx' = Free
    /\ UNCHANGED <<variant, ruleList, transitionRules, currentState, onStateChanged,
                   calls, got, delivered, commits>>

Callback_handleEvent(t) ==
    \/ Callback_Lock(t)
    \/ Callback_Find(t)
    \/ Callback_Assign(t)
    \/ Callback_Notify(t)
    \/ Callback_ObserverReturns(t)
    \/ Callback_Return(t)

\* ---- callers ----

\* a thread of the general specification issues its next call, any event
Caller(t) ==
    /\ calls[t] < MaxCalls
    /\ \/ \E e \in Events : HandleEventCall(t, e)
       \/ GetCurrentStateCall(t)

\* void worker(SyncStateMachine &sm): Start, Pause, Resume, Stop in this order
worker(t) ==
    /\ t \in Workers
    /\ calls[t] < Len(WorkerEvents)
    /\ HandleEventCall(t, WorkerEvents[calls[t] + 1])

\* the thread has run worker() to its end
Finished(t) == pc[t] = "idle" /\ calls[t] = Len(WorkerEvents)

\* main(): after t1.join() and t2.join(), sm.getCurrentState()
main ==
    /\ \A w \in Workers : Finished(w)
    /\ calls[MainThread] = 0
    /\ GetCurrentStateCall(MainThread)

Next ==
    \/ \E t \in DOMAIN pc : Caller(t)
    \/ setCallback
    \/ \E t \in DOMAIN pc : Sync_handleEvent(t)
    \/ \E t \in DOMAIN pc : Sync_getCurrentState(t)
    \/ \E t \in DOMAIN pc : LockFree_handleEvent(t)
    \/ \E t \in DOMAIN pc : LockFree_getCurrentState(t)
    \/ \E t \in DOMAIN pc : Callback_handleEvent(t)

Spec == Init /\ [][Next]_vars

\* the driver: main() and its two workers on one fresh instance, of
\* SyncStateMachine as written or of LockFreeStateMachine in its place
InitDriver == InitOf(Workers \cup {MainThread}, {"Sync", "LockFree"})

NextDriver ==
    \/ \E t \in Workers : worker(t)
    \/ main
    \/ \E t \in DOMAIN pc : Sync_handleEvent(t)
    \/ \E t \in DOMAIN pc : Sync_getCurrentState(t)
    \/ \E t \in DOMAIN pc : LockFree_handleEvent(t)
    \/ \E t \in DOMAIN pc : LockFree_getCurrentState(t)

SpecDriver == InitDriver /\ [][NextDriver]_vars

\* one thread, main's, applies events to a fresh SyncStateMachine one call
\* after the other
InitSeq == InitOf({MainThread}, {"Sync"})

SequentialCaller ==
    /\ calls[MainThread] < SeqCalls
    /\ \E e \in Events : HandleEventCall(MainThread, e)

NextSeq ==
    \/ SequentialCaller
    \/ Sync_handleEvent(MainThread)

SpecSeq == InitSeq /\ [][NextSeq]_vars

\* SyncStateMachine::handleEvent run from lock to unlock on state s with
\* event e: <<the state it leaves, the value it returns>>
SyncAlone(s, e) ==
    LET i == Find(transitionRules, <<s, e>>)
    IN IF i # End THEN <<i, TRUE>> ELSE <<s, FALSE>>

\* ---- an observer that calls back into the instance ----

\* a thread of the callback machine issues its next handleEvent, any event
EventCaller(t) ==
    /\ calls[t] < MaxCalls
    /\ \E e \in Events : HandleEventCall(t, e)

\* the observer calls handleEvent on the instance that is calling it: the
\* thread arrives at the lock_guard of the nested call while it owns mtx
Observer_CallsHandleEvent(t) ==
    /\ variant = "Callback"
    /\ pc[t] = "incallback"
    /\ pc' = [pc EXCEPT ![t] = "relock"]
    /\ UNCHANGED <<variant, ruleList, transitionRules, currentState, mtx, onStateChanged, frame,
                   calls, hist, got, delivered, commits>>

\* std::mutex::lock() by the thread that owns the mutex is undefined: the
\* call waits for ever (no step), or the implementation detects the relock
\* and throws std::system_error, which leaves the observer and the outer
\* handleEvent; the outer lock_guard releases the mutex while unwinding and
\* the outer call yields no value
Relock_Throws(t) ==
    /\ variant = "Callback"
    /\ pc[t] = "relock"
    /\ mtx = t
    /\ mtx' = Free
    /\ frame' = [frame EXCEPT ![t] = NoFrame]
    /\ pc' = [pc EXCEPT ![t] = "threw"]
    /\ UNCHANGED <<variant, ruleList, transitionRules, currentState, onStateChanged,
                   calls, hist, got, delivered, commits>>

InitReentrant == InitOf(Threads, {"Callback"})

NextReentrant ==
    \/ \E t \in DOMAIN pc : EventCaller(t)
    \/ setCallback
    \/ \E t \in DOMAIN pc : Callback_handleEvent(t)
    \/ \E t \in DOMAIN pc : Observer_CallsHandleEvent(t)
    \/ \E t \in DOMAIN pc : Relock_Throws(t)

SpecReentrant == InitReentrant /\ [][NextReentrant]_vars

\* ---- start-up with a rule list that may repeat a key ----

\* the map before its constructor has run
NoTable == (<<"unbuilt">> :> Undef)

\* the rules a list is drawn from: the keys of the program's rules, each
\* mapped to Running or to Stopped
RulePool == {<<TransitionRuleList[i][1], s>> :
                i \in 1..Len(TransitionRuleList), s \in {"Running", "Stopped"}}

\* the rule lists of at most MaxRules rules
RuleLists == UNION {[1..n -> RulePool] : n \in 1..MaxRules}

InitBuild ==
    /\ variant = "Sync"
    /\ ruleList \in RuleLists
    /\ transitionRules = NoTable
    /\ currentState = InitialState
    /\ mtx = Free
    /\ onStateChanged = FALSE
    /\ pc = [t \in {MainThread} |-> "idle"]
    /\ frame = [t \in {MainThread} |-> NoFrame]
    /\ calls = [t \in {MainThread} |-> 0]
    /\ hist = [t \in {MainThread} |-> <<>>]
    /\ got = [t \in {MainThread} |-> Undef]
    /\ delivered = <<>>
    /\ commits = 0

\* the dynamic initialization of the global: the map is constructed from the list
ConstructTransitionRules ==
    /\ transitionRules = NoTable
    /\ transitionRules' = MapFromList(ruleList)
    /\ UNCHANGED <<variant, ruleList, currentState, mtx, onStateChanged, pc, frame,
                   calls, hist, got, delivered, commits>>

\* main() runs once the globals are initialized; its thread calls handleEvent
CallerAfterStartup ==
    /\ transitionRules # NoTable
    /\ EventCaller(MainThread)

NextBuild ==
    \/ ConstructTransitionRules
    \/ CallerAfterStartup
    \/ Sync_handleEvent(MainThread)

SpecBuild == InitBuild /\ [][NextBuild]_vars

\* ---- one call under sustained contention ----

\* the n-th call of the contender, counted from 0: Start, then Pause and
\* Resume in turn
ContenderEvent(n) == IF n = 0 THEN "Start" ELSE IF n % 2 = 1 THEN "Pause" ELSE "Resume"

ContenderCall ==
    /\ calls[Contender] < MaxContention
    /\ HandleEventCall(Contender, ContenderEvent(calls[Contender]))

\* the other thread calls handleEvent(Stop) once, at any moment
VictimCall ==
    /\ calls[Victim] = 0
    /\ HandleEventCall(Victim, "Stop")

InitContention == InitOf({Contender, Victim}, {"LockFree"})

NextContention ==
    \/ ContenderCall
    \/ VictimCall
    \/ \E t \in DOMAIN pc : LockFree_handleEvent(t)

SpecContention == InitContention /\ [][NextContention]_vars

\* ---- the driver on LockFreeStateMachine, compare-and-swap without
\* ---- spurious failure ----

\* a compare-and-swap that leaves the loop for one more round for any reason:
\* the weak form as the standard allows it
CasFailsOnDifference_Spurious(t) ==
    CasFails(t)

\* compare_exchange_weak yields false because currentState differs from
\* expected, and for no other reason
CasFailsOnDifference(t) ==
    /\ currentState # frame[t].expected
    /\ CasFails(t)

LockFree_CasExact(t) ==
    /\ variant = "LockFree"
    /\ pc[t] = "cas"
    /\ \/ CasSucceeds(t)
       \/ CasFailsOnDifference(t)
    /\ UNCHANGED <<variant, ruleList, transitionRules, mtx, onStateChanged,
                   calls, hist, got, delivered>>

\* the steps thread t takes by itself once it has been started
ThreadStep(t) ==
    \/ worker(t)
    \/ LockFree_Load(t)
    \/ LockFree_Find(t)
    \/ LockFree_CasExact(t)
    \/ LockFree_Return(t)
    \/ LockFree_getCurrentState(t)

InitExact == InitOf(Workers \cup {MainThread}, {"LockFree"})

NextExact ==
    \/ main
    \/ \E t \in DOMAIN pc : ThreadStep(t)

\* every started thread is scheduled again and again
FairExact ==
    /\ WF_vars(main)
    /\ \A t \in Workers \cup {MainThread} : WF_vars(ThreadStep(t))

SpecExact == InitExact /\ [][NextExact]_vars /\ FairExact

\* ======================= properties =======================

Last(q) == q[Len(q)]

\* no thread is inside a call
Quiescent == \A t \in DOMAIN pc : pc[t] = "idle"

\* the states reachable from the states S by zero or more rules of the table
RECURSIVE ReachFrom(_, _)
ReachFrom(S, table) ==
    LET N == S \cup {table[k] : k \in {j \in DOMAIN table : j[1] \in S}}
    IN IF N = S THEN S ELSE ReachFrom(N, table)

\* the values of currentState a thread holds: what getCurrentState returned
\* to it and the locals its running call has filled from currentState
ValuesRead(t) ==
    ({got[t], frame[t].expected, frame[t].oldState, frame[t].atCall}
        \cup (IF frame[t].key = NoKey THEN {} ELSE {frame[t].key[1]}))
    \ {Undef}

\* C1: a fresh instance of each class is in Idle, and at every moment of
\* every interleaving currentState, and every value of it a thread has read,
\* is a state reachable from Idle by rules of the table.
C1_StateReachableFromIdle ==
    /\ (\A t \in DOMAIN pc : calls[t] = 0) => currentState = "Idle"
    /\ currentState \in ReachFrom({"Idle"}, transitionRules)
    /\ \A t \in DOMAIN pc : ValuesRead(t) \subseteq ReachFrom({"Idle"}, transitionRules)

\* a thread has read Running from a lock-free instance that has since moved on
C1_Witness ==
    /\ variant = "LockFree"
    /\ currentState = "Paused"
    /\ \E t \in DOMAIN pc : got[t] = "Running"

\* the calls of h can be run one at a time against SyncStateMachine, each
\* thread's calls in its own order, from state s, so that every call returns
\* what h records and the machine ends in state final
RECURSIVE CanLinearize(_, _, _)
CanLinearize(h, s, final) ==
    IF \A t \in DOMAIN h : h[t] = <<>>
    THEN s = final
    ELSE \E t \in DOMAIN h :
            /\ h[t] # <<>>
            /\ LET c == Head(h[t])
                   r == SyncAlone(s, c[1])
               IN /\ r[2] = c[2]
                  /\ CanLinearize([h EXCEPT ![t] = Tail(h[t])], r[1], final)

\* C2: whenever all calls issued so far on a LockFreeStateMachine have
\* returned, their results and the state reached are those of some run of the
\* same calls one at a time, in each thread's order, on a SyncStateMachine;
\* the runs of SyncStateMachine itself yield outcomes of the same set.
C2_Linearizable ==
    (variant \in {"LockFree", "Sync"} /\ Quiescent)
        => CanLinearize(hist, "Idle", currentState)

\* two threads have each applied Start and Pause to a lock-free instance:
\* one of them won both times, the other found no rule both times
C2_Witness ==
    /\ variant = "LockFree"
    /\ Quiescent
    /\ currentState = "Paused"
    /\ \E t, u \in DOMAIN pc :
          /\ t # u
          /\ hist[t] = <<<<"Start", TRUE>>, <<"Pause", TRUE>>>>
          /\ hist[u] = <<<<"Start", FALSE>>, <<"Pause", FALSE>>>>

\* both workers have run worker() to its end
AllWorkersDone == \A w \in Workers : Finished(w)

\* the Stop calls that returned true
SuccessfulStops == {w \in Workers : hist[w][Len(WorkerEvents)] = <<"Stop", TRUE>>}

\* C3: when the two workers have applied Start, Pause, Resume, Stop to the
\* shared fresh instance, the state is Stopped and exactly one of the two
\* Stop calls has returned true, in every interleaving.
C3_DriverEndsStopped ==
    AllWorkersDone => (currentState = "Stopped" /\ Cardinality(SuccessfulStops) = 1)

\* the workers overlapped: one started the machine, the other stopped it
C3_Witness ==
    /\ AllWorkersDone
    /\ \E w, x \in Workers :
          /\ w # x
          /\ hist[w][1] = <<"Start", TRUE>>
          /\ hist[x][Len(WorkerEvents)] = <<"Stop", TRUE>>

\* the state a call looks up: the one it loaded (lock-free) or the one it
\* reads under the mutex
LookedUp(t) == IF variant = "LockFree" THEN frame[t].expected ELSE currentState

\* thread t takes the step that decides its call and finds no rule
FindsNoRule(t) ==
    /\ pc[t] \in {"find", "lffind"}
    /\ pc'[t] # pc[t]
    /\ Find(transitionRules, <<LookedUp(t), frame[t].event>>) = End

\* thread t returns rv from handleEvent in this step
Returns(t, rv) == hist'[t] = Append(hist[t], <<frame[t].event, rv>>)

\* C4: a call whose lookup finds no rule returns false and currentState is
\* not written: not by the step that finds no rule, which never leads to the
\* assignment or to the compare-and-swap, and not by anyone until the call
\* has returned when the mutex is held.
C4_NoRuleNoWrite ==
    [][\A t \in DOMAIN pc :
          /\ FindsNoRule(t) =>
                /\ currentState' = currentState
                /\ IF variant = "LockFree"
                   THEN Returns(t, FALSE) /\ pc'[t] = "idle"
                   ELSE pc'[t] = "retfalse"
          /\ pc[t] = "retfalse" =>
                /\ currentState' = currentState
                /\ currentState = frame[t].key[1]
                /\ pc'[t] # pc[t] => Returns(t, FALSE)]_vars

\* a lock-free call has returned false on a running machine
C4_Witness ==
    /\ variant = "LockFree"
    /\ currentState = "Running"
    /\ \E t \in DOMAIN pc : hist[t] # <<>> /\ Last(hist[t])[2] = FALSE

\* C5: once currentState is Stopped it stays Stopped, and every call that
\* started when it was Stopped returns false.
C5_StoppedIsTerminal ==
    [][/\ currentState = "Stopped" => currentState' = "Stopped"
       /\ \A t \in DOMAIN pc :
             (frame[t].atCall = "Stopped" /\ hist'[t] # hist[t]) => Returns(t, FALSE)]_vars

\* a call that started on a stopped machine is about to return
C5_Witness ==
    \E t \in DOMAIN pc : frame[t].atCall = "Stopped" /\ pc[t] \in {"retfalse", "lffind"}

\* lookup folded over the events evs from state s: <<the state reached, the
\* sequence of results>>; a defined lookup moves the state and yields true, an
\* undefined one leaves it and yields false
RECURSIVE Replay(_, _)
Replay(s, evs) ==
    IF evs = <<>>
    THEN <<s, <<>>>>
    ELSE LET l == Find(transitionRules, <<s, Head(evs)>>)
             rest == Replay(IF l = End THEN s ELSE l, Tail(evs))
         IN <<rest[1], <<l # End>> \o rest[2]>>

EventsOf(h) == [i \in 1..Len(h) |-> h[i][1]]
ResultsOf(h) == [i \in 1..Len(h) |-> h[i][2]]

\* C6: after each call of a sequence applied one call at a time to a fresh
\* SyncStateMachine, the results so far and the state are those of the fold
\* of lookup over the events from Idle; Start, Pause, Resume, Stop gives
\* true, true, true, true and Stopped.
C6_SequentialReplay ==
    (variant = "Sync" /\ pc[MainThread] = "idle") =>
        /\ currentState = Replay("Idle", EventsOf(hist[MainThread]))[1]
        /\ ResultsOf(hist[MainThread]) = Replay("Idle", EventsOf(hist[MainThread]))[2]
        /\ EventsOf(hist[MainThread]) = <<"Start", "Pause", "Resume", "Stop">> =>
              /\ ResultsOf(hist[MainThread]) = <<TRUE, TRUE, TRUE, TRUE>>
              /\ currentState = "Stopped"

\* the four events of the scenario have been applied, the last call has returned
C6_Witness ==
    /\ pc[MainThread] = "idle"
    /\ EventsOf(hist[MainThread]) = <<"Start", "Pause", "Resume", "Stop">>

\* the five rules the table is said to hold
FiveRules ==
    (<<"Idle", "Start">> :> "Running") @@
    (<<"Running", "Pause">> :> "Paused") @@
    (<<"Paused", "Resume">> :> "Running") @@
    (<<"Running", "Stop">> :> "Stopped") @@
    (<<"Paused", "Stop">> :> "Stopped")

\* the key of the lookup that decides the call thread t is returning from
DecidingKey(t) ==
    IF pc[t] = "lffind" THEN <<frame[t].expected, frame[t].event>> ELSE frame[t].key

\* thread t is the only one that has called, and this is its first call
FirstCallEver(t) == calls[t] = 1 /\ \A u \in DOMAIN pc \ {t} : calls[u] = 0

\* C7: the table holds the five rules and no other, leaving eleven pairs
\* without a rule; in each class a call returns true exactly when the pair
\* it looked up is one of the five, every change of currentState goes from
\* the first component of such a pair to the state the rule names, and a
\* call returning false changes nothing; Resume as the first call on a fresh
\* machine returns false and leaves Idle.
C7_FiveRules ==
    [][/\ transitionRules = FiveRules
       /\ Cardinality((States \X Events) \ DOMAIN transitionRules) = 11
       /\ \A t \in DOMAIN pc :
             /\ hist'[t] # hist[t] =>
                   /\ Returns(t, DecidingKey(t) \in DOMAIN FiveRules)
                   /\ currentState' = currentState
             /\ (hist'[t] # hist[t] /\ variant # "LockFree") =>
                   currentState = (IF DecidingKey(t) \in DOMAIN FiveRules
                                   THEN FiveRules[DecidingKey(t)]
                                   ELSE DecidingKey(t)[1])
             /\ (hist'[t] # hist[t] /\ FirstCallEver(t) /\ frame[t].event = "Resume") =>
                   (Returns(t, FALSE) /\ currentState' = "Idle")
       /\ currentState' # currentState =>
             \E t \in DOMAIN pc :
                /\ pc[t] \in {"assign", "cas"} /\ pc'[t] # pc[t]
                /\ frame[t].key \in DOMAIN FiveRules
                /\ frame[t].key[1] = currentState
                /\ currentState' = FiveRules[frame[t].key]]_vars

\* Resume was the first call on a fresh machine and has returned
C7_Witness ==
    \E t \in DOMAIN pc :
        /\ FirstCallEver(t)
        /\ hist[t] = <<<<"Resume", FALSE>>>>
        /\ currentState = "Idle"

\* C8: the triples delivered to the observer, in delivery order, are a walk
\* through the table from Idle: the first starts at Idle, each obeys
\* lookup(old, event) = new, each starts where the one before ended.
C8_ObserverWalk ==
    \A i \in 1..Len(delivered) :
        /\ delivered[i][1] = (IF i = 1 THEN "Idle" ELSE delivered[i - 1][3])
        /\ Find(transitionRules, <<delivered[i][1], delivered[i][2]>>) = delivered[i][3]

\* the observer has received three triples, from transitions of both threads
C8_Witness ==
    /\ Len(delivered) = 3
    /\ \A t \in DOMAIN pc : hist[t] # <<>> /\ hist[t][1][2] = TRUE

\* the positions at which a thread neither holds the mutex nor touches
\* currentState
Outside == {"idle", "lock"}

\* C9: from the assignment to the return of the observer the calling thread
\* holds the mutex and every other thread is outside handleEvent or waiting
\* for the mutex; while the observer executes, currentState is the newState
\* it was given.
C9_ObserverInsideCriticalSection ==
    \A t \in DOMAIN pc :
        /\ pc[t] \in {"notify", "incallback"} =>
              /\ mtx = t
              /\ \A u \in DOMAIN pc \ {t} : pc[u] \in Outside
        /\ pc[t] = "incallback" =>
              /\ currentState = Last(delivered)[3]
              /\ currentState = frame[t].it

\* the observer executes while another thread waits for the mutex
C9_Witness ==
    \E t, u \in DOMAIN pc : pc[t] = "incallback" /\ pc[u] = "lock"

\* the number of handleEvent calls that have returned true
TrueReturns ==
    LET n[t \in 0..NumThreads] ==
            IF t \notin DOMAIN hist THEN 0
            ELSE Cardinality({i \in 1..Len(hist[t]) : hist[t][i][2]})
        RECURSIVE Sum(_)
        Sum(k) == IF k < 0 THEN 0 ELSE n[k] + Sum(k - 1)
    IN Sum(NumThreads)

\* the threads at one of the positions P
At(P) == {t \in DOMAIN pc : pc[t] \in P}

\* C10 as stated: with an observer registered, at any time the number of
\* observer invocations equals the number of committed transitions.
C10_InvocationsEqualCommits ==
    (variant = "Callback" /\ onStateChanged) => Len(delivered) = commits

\* C10 as amended: with an observer registered, every call that has returned
\* true, or is about to, has had the observer invoked once, a call returning
\* false never; the invocation receives the state the call looked up, its
\* event and the state it assigned; the number of invocations equals the
\* number of committed transitions except between an assignment and the
\* invocation that follows it under the same lock, where it is one less.
C10_ObserverOncePerCommit ==
    (variant = "Callback" /\ onStateChanged) =>
        /\ Len(delivered) = TrueReturns + Cardinality(At({"incallback", "rettrue"}))
        /\ Len(delivered) = commits - Cardinality(At({"notify"}))
        /\ \A t \in DOMAIN pc :
              pc[t] = "incallback" =>
                  Last(delivered) = <<frame[t].key[1], frame[t].event, frame[t].it>>

\* the observer has been invoked for transitions of both threads, and a call
\* that found no rule has returned false without an invocation
C10_Witness ==
    /\ onStateChanged
    /\ Len(delivered) = 2
    /\ \E t, u \in DOMAIN pc :
          /\ hist[t] = <<<<"Start", TRUE>>, <<"Start", FALSE>>>>
          /\ hist[u] = <<<<"Stop", TRUE>>>>

HasDuplicateKey(rules) ==
    \E i, j \in 1..Len(rules) : i # j /\ rules[i][1] = rules[j][1]

\* C12: a rule list in which two rules share a key builds no table: the map
\* stays unbuilt, and no handleEvent call ever looks a rule up.
C12_DuplicateKeyRefused ==
    HasDuplicateKey(ruleList) =>
        /\ transitionRules = NoTable
        /\ \A t \in DOMAIN pc : frame[t].it = Undef

\* the positions inside getCurrentState
InGet == {"glock", "gread", "gload"}

\* C13: getCurrentState of SyncStateMachine and of LockFreeStateMachine,
\* whatever the other threads do meanwhile, returns the value currentState
\* holds at the instant of its read, which lies between the call's start and
\* its return, and no step of it changes currentState.
C13_GetReturnsCurrentValue ==
    [][\A t \in DOMAIN pc :
          (pc[t] \in InGet /\ pc'[t] # pc[t]) =>
              /\ currentState' = currentState
              /\ commits' = commits
              /\ pc'[t] = "idle" => got'[t] = currentState
              /\ pc'[t] # "idle" => got'[t] = got[t]]_vars

\* getCurrentState has returned Running to one thread while the handleEvent of
\* another is between its load and its compare-and-swap
C13_Witness ==
    /\ variant = "LockFree"
    /\ \E t, u \in DOMAIN pc :
          /\ pc[t] = "idle" /\ got[t] = "Running" /\ calls[t] = 1
          /\ pc[u] = "cas"

\* C14: with or without an observer, whenever all calls issued so far on a
\* SyncStateMachine_Callback have returned, their results and the state
\* reached are those SyncStateMachine gives for the same calls run one at a
\* time in each thread's order, and currentState has been stored into once
\* per call that returned true.
C14_CallbackKeepsSyncContract ==
    (variant = "Callback" /\ Quiescent) =>
        /\ CanLinearize(hist, "Idle", currentState)
        /\ commits = TrueReturns

\* two threads have each made two calls on an instance with an observer; one
\* Stop found the machine already stopped
C14_Witness ==
    /\ variant = "Callback"
    /\ onStateChanged
    /\ Quiescent
    /\ \E t, u \in DOMAIN pc :
          /\ hist[t] = <<<<"Start", TRUE>>, <<"Stop", FALSE>>>>
          /\ hist[u] = <<<<"Pause", TRUE>>, <<"Stop", TRUE>>>>

\* C15: every compare-and-swap of LockFreeStateMachine::handleEvent is
\* attempted with desired = lookup(expected, event) for the expected loaded
\* in the same iteration; a failed one sends the call back to the load, the
\* load takes the value currentState has then, and a value is stored only as
\* the rule for the state it replaces.
C15_RestartRecomputes ==
    [][\A t \in DOMAIN pc :
          /\ pc[t] = "cas" =>
                /\ frame[t].key = <<frame[t].expected, frame[t].event>>
                /\ frame[t].desired = Find(transitionRules, frame[t].key)
                /\ frame[t].desired # End
          /\ (pc[t] = "cas" /\ pc'[t] # "cas") =>
                \/ /\ pc'[t] = "rettrue"
                   /\ currentState = frame[t].expected
                   /\ currentState' = Find(transitionRules, <<currentState, frame[t].event>>)
                \/ /\ pc'[t] = "load"
                   /\ currentState' = currentState
          /\ (pc[t] = "load" /\ pc'[t] # "load") =>
                /\ pc'[t] = "lffind"
                /\ frame'[t].expected = currentState]_vars

\* a call that has lost a compare-and-swap has loaded again and now finds
\* no rule for the state it loaded: it is about to return false
C15_Witness ==
    \E t \in DOMAIN pc :
        /\ pc[t] = "lffind"
        /\ frame[t].desired # Undef
        /\ frame[t].expected # frame[t].key[1]
        /\ Find(transitionRules, <<frame[t].expected, frame[t].event>>) = End

CommitsByOthers(t) ==
    commits - frame[t].atCommits - (IF pc[t] = "rettrue" THEN 1 ELSE 0)

InHandleEvent(t) == pc[t] \in {"load", "lffind", "cas", "rettrue"}

\* C17: in the driver on a LockFreeStateMachine, with a compare-and-swap that
\* fails only when currentState differs from expected: a compare-and-swap of
\* a call fails only after another call has stored a state since the failing
\* call's load; a call has begun at most one iteration more than the number
\* of stores other calls made while it runs; and under weak fairness every
\* call returns, both workers get to the end of their four events and main
\* reads the state.
C17_CallsTerminate ==
    /\ [][\A t \in DOMAIN pc :
            (pc[t] = "cas" /\ pc'[t] = "load") => commits > frame[t].atLoad]_vars
    /\ [](\A t \in DOMAIN pc :
            InHandleEvent(t) =>
                /\ frame[t].iters < IterCap
                /\ frame[t].iters <= 1 + CommitsByOthers(t))
    /\ \A t \in Workers \cup {MainThread} : [](pc[t] # "idle" => <>(pc[t] = "idle"))
    /\ <>[](/\ \A w \in Workers : Finished(w)
            /\ pc[MainThread] = "idle"
            /\ calls[MainThread] = 1)

\* a worker's Stop call loaded Running, and failed its compare-and-swap three
\* times, once for each of the other worker's Pause, Resume and Stop; in its
\* fourth iteration it has loaded Stopped
C17_Witness ==
    \E t \in Workers :
        /\ pc[t] = "lffind"
        /\ frame[t].event = "Stop"
        /\ frame[t].atCall = "Running"
        /\ frame[t].expected = "Stopped"
        /\ frame[t].iters = 4
        /\ CommitsByOthers(t) = 3

\* C18: the transition table is never modified after it is built: in every
\* reachable state of every variant it is the map built from the rule list,
\* no step of handleEvent or getCurrentState changes it, and a lookup that
\* finds no rule leaves the looked-up pair out of the table.
C18_TableNeverModified ==
    [][/\ transitionRules = MapFromList(ruleList)
       /\ transitionRules' = transitionRules
       /\ \A t \in DOMAIN pc :
             FindsNoRule(t) =>
                 <<LookedUp(t), frame[t].event>> \notin DOMAIN transitionRules']_vars

\* after a Start and a Stop a call has looked up (Stopped, Start), a pair
\* without a rule, and is about to return false; the table is the one built
\* from the initializer list
C18_Witness ==
    \E t \in DOMAIN pc :
        /\ pc[t] = "retfalse"
        /\ frame[t].key = <<"Stopped", "Start">>
        /\ frame[t].it = End
        /\ frame[t].key \notin DOMAIN transitionRules
        /\ transitionRules = MapFromList(TransitionRuleList)

\* the positions of a handleEvent call between its store to currentState and
\* its return
Written == {"notify", "incallback", "rettrue"}

\* thread t takes the step
Moves(t) == pc'[t] # pc[t]

\* C19: in every variant and under any interleaving the values of
\* currentState form a walk through the table from Idle, and stores and
\* true results correspond one to one: a step changes currentState exactly
\* when it is the one store of a call, the change follows the rule for the
\* old state and that call's event, a call stores once and to a different
\* state, a call that has stored returns true and no other does; this also
\* holds for a LockFreeStateMachine call whose compare-and-swap succeeds
\* after the state went from the loaded value to another and back.
C19_WritesMatchSuccesses ==
    [][/\ commits = 0 => currentState = "Idle"
       /\ commits = TrueReturns + Cardinality(At(Written))
       /\ commits' \in {commits, commits + 1}
       /\ (currentState' # currentState) <=> (commits' = commits + 1)
       /\ currentState' # currentState =>
             \E t \in DOMAIN pc :
                /\ pc[t] \in {"assign", "cas"}
                /\ pc'[t] \in Written
                /\ \A u \in DOMAIN pc \ {t} : ~Moves(u)
                /\ <<currentState, frame[t].event>> \in DOMAIN transitionRules
                /\ currentState' = transitionRules[<<currentState, frame[t].event>>]
       /\ \A t \in DOMAIN pc :
             /\ (pc[t] \notin Written /\ pc'[t] \in Written) =>
                    currentState' # currentState
             /\ (pc[t] \in Written /\ Moves(t)) =>
                    /\ currentState' = currentState
                    /\ pc'[t] \in Written \/ Returns(t, TRUE)
             /\ hist'[t] # hist[t] =>
                    (Returns(t, TRUE) <=> pc[t] \in Written)]_vars

\* a Stop call on a LockFreeStateMachine loaded Running; the other thread
\* paused and resumed the machine; the call's compare-and-swap then succeeded
\* and the call is about to return true
C19_Witness ==
    \E t \in DOMAIN pc :
        /\ variant = "LockFree"
        /\ pc[t] = "rettrue"
        /\ frame[t].event = "Stop"
        /\ frame[t].expected = "Running"
        /\ frame[t].iters = 1
        /\ commits - frame[t].atLoad = 3
        /\ currentState = "Stopped"

\* the number of calls with event e that have returned rv, over all threads
ReturnCount(e, rv) ==
    LET n[t \in 0..NumThreads] ==
            IF t \notin DOMAIN hist THEN 0
            ELSE Cardinality({i \in 1..Len(hist[t]) : hist[t][i] = <<e, rv>>})
        RECURSIVE Sum(_)
        Sum(k) == IF k < 0 THEN 0 ELSE n[k] + Sum(k - 1)
    IN Sum(NumThreads)

\* C20: over the life of an instance of any variant at most one Start call
\* returns true and at most one Stop call returns true, and once
\* currentState has left Idle it never equals Idle again.
C20_OneStartOneStop ==
    [][/\ ReturnCount("Start", TRUE)' <= 1
       /\ ReturnCount("Stop", TRUE)' <= 1
       /\ currentState # "Idle" => currentState' # "Idle"
       /\ commits > 0 => currentState # "Idle"]_vars

\* both threads have called Start and then Stop: one Start and one Stop have
\* returned true, the other Start and the other Stop false, and the machine
\* is Stopped
C20_Witness ==
    /\ ReturnCount("Start", TRUE) = 1
    /\ ReturnCount("Start", FALSE) = 1
    /\ ReturnCount("Stop", TRUE) = 1
    /\ ReturnCount("Stop", FALSE) = 1
    /\ currentState = "Stopped"

====
